---- MODULE Spec2Model ----
(***************************************************************************)
(* Model of src/src/Canvas.tsx: the Prophecy panel's per-frame callback    *)
(* (useFrame), the Prophecies grid layout and the fragment shader.         *)
(*                                                                         *)
(* Numbers.  The source computes in IEEE doubles; the model computes in    *)
(* exact fixed point:                                                      *)
(*   - time (delta, accumRef, timeRef) in quanta of 1/(30*Resolution) s,   *)
(*     so that targetDelta = 1/30 s is Resolution quanta;                  *)
(*   - uOffset in tenths of a time quantum (0.1 * targetDelta per tick);   *)
(*   - grid placements x, y in quarters of a world unit (2.5 = 10/4);      *)
(*   - colour channels and alpha in hundredths.                            *)
(***************************************************************************)
EXTENDS Integers, Sequences, FiniteSets, TLC

VARIABLES
    \* ---- Prophecy (one panel) ----
    accumRef,      \* accumRef.current
    timeRef,       \* timeRef.current
    uOffset,       \* shaderMaterial.uniforms.uOffset.value : [x, y]
    meshRef,       \* meshRef.current # null
    positionY,     \* mesh.position.y : [bob, angle], see NewY
    floatOffset,   \* Math.random() * 2 PI, drawn once
    \* ---- history of the calls of the useFrame callback ----
    frames,        \* number of calls so far
    delta,         \* the delta argument of the latest call
    total,         \* sum of the deltas of all calls
    ticks,         \* number of calls that took the `if` branch
    lastTickAt,    \* value of total at the latest tick
    \* ---- Prophecies (layout of one layer) ----
    layer,         \* the Layer being mapped
    panels,        \* the <Prophecy> props produced for it
    layoutState,   \* "pending" | "rendered" | "InvalidLayoutError"
    \* ---- fragment shader ----
    frag,          \* the fragment's sampled inputs
    fragOut        \* what main() did with it

vars == <<accumRef, timeRef, uOffset, meshRef, positionY, floatOffset,
          frames, delta, total, ticks, lastTickAt,
          layer, panels, layoutState, frag, fragOut>>

prophecyVars == <<accumRef, timeRef, uOffset, meshRef, positionY, floatOffset,
                  frames, delta, total, ticks, lastTickAt>>
layoutVars == <<layer, panels, layoutState>>
shaderVars == <<frag, fragOut>>

(***************************************************************************)
(* Bounds                                                                  *)
(***************************************************************************)
Resolution == 3     \* time quanta per 1/30 s
MaxDelta == 7       \* largest delta of one call, in quanta (over two steps)
MaxFrames == 6      \* calls of the callback in one run
MaxPhase == 1       \* floatOffset is drawn from 0..MaxPhase
MaxPanelCount == 12 \* largest prophecyCount of a generated layer
MaxColumns == 5     \* largest itemsPerRow of a generated layer

(***************************************************************************)
(* Prophecy: the useFrame callback                                         *)
(***************************************************************************)
targetDelta == Resolution          \* const targetDelta = 1 / 30
scrollTenths == 1                  \* the factor 0.1 of lines 78-79, in tenths
speed == 4                         \* const speed = 4.0

\* accumRef.current += delta
AccumAfterAdd(acc, d) == acc + d

\* Mutant: the threshold test replaced by "some time is pending".
ShouldTickAnyPending(acc) == acc > 0

\* if (accumRef.current >= targetDelta)
ShouldTick(acc) == acc >= targetDelta

\* Mutant: the accumulator is not cleared after a tick.
AccumKept(acc) == acc

\* accumRef.current = 0
AccumAfterTick(acc) == 0

\* timeRef.current += targetDelta
TimeAfterTick(t) == t + targetDelta

\* Mutant: both components are advanced with +=.
OffsetBothAdded(off) ==
    [x |-> off.x + targetDelta * scrollTenths,
     y |-> off.y + targetDelta * scrollTenths]

\* uOffset.value.y -= targetDelta * 0.1 ; uOffset.value.x += targetDelta * 0.1
OffsetAfterTick(off) ==
    [x |-> off.x + targetDelta * scrollTenths,
     y |-> off.y - targetDelta * scrollTenths]

\* newY = startY + Math.sin(timeRef.current * speed + floatOffset) * floatAmount.
\* The sine is left uninterpreted: the position is recorded as the angle it
\* was computed from (bob = FALSE: still the startY given by the props).
NewY(t, phase) == [bob |-> TRUE, angle |-> t * speed + phase]

\* if (meshRef.current) { ... meshRef.current.position.setY(newY) }
PositionAfterTick(pos, attached, t, phase) ==
    IF attached THEN NewY(t, phase) ELSE pos

InitProphecy ==
    /\ accumRef = 0
    /\ timeRef = 0
    /\ uOffset = [x |-> 0, y |-> 0]
    /\ meshRef = FALSE
    /\ positionY = [bob |-> FALSE, angle |-> 0]
    /\ floatOffset \in 0..MaxPhase
    /\ frames = 0
    /\ delta = 0
    /\ total = 0
    /\ ticks = 0
    /\ lastTickAt = 0

\* React attaches the mesh to meshRef when the <mesh> is committed.
AttachMesh ==
    /\ ~meshRef
    /\ meshRef' = TRUE
    /\ UNCHANGED <<accumRef, timeRef, uOffset, positionY, floatOffset,
                   frames, delta, total, ticks, lastTickAt>>
    /\ UNCHANGED <<layoutVars, shaderVars>>

\* One call of the useFrame callback with the frame's delta.
Frame(d) ==
    LET acc == AccumAfterAdd(accumRef, d) IN
    /\ frames < MaxFrames
    /\ frames' = frames + 1
    /\ delta' = d
    /\ total' = total + d
    /\ IF ShouldTick(acc)
       THEN /\ timeRef' = TimeAfterTick(timeRef)
            /\ uOffset' = OffsetAfterTick(uOffset)
            /\ positionY' = PositionAfterTick(positionY, meshRef,
                                              TimeAfterTick(timeRef), floatOffset)
            /\ accumRef' = AccumAfterTick(acc)
            /\ ticks' = ticks + 1
            /\ lastTickAt' = total + d
       ELSE /\ accumRef' = acc
            /\ UNCHANGED <<timeRef, uOffset, positionY, ticks, lastTickAt>>
    /\ UNCHANGED <<meshRef, floatOffset>>
    /\ UNCHANGED <<layoutVars, shaderVars>>

OnFrame == \E d \in 0..MaxDelta : Frame(d)

(***************************************************************************)
(* Properties of the useFrame callback                                     *)
(***************************************************************************)
\* A step of the behaviour that is one call of the callback.
IsFrame == frames' = frames + 1
\* A call of the callback that applied a tick.
IsTick == ticks' = ticks + 1

\* C1 (as claimed): whenever a call applies a tick, the accumulator afterwards
\* equals (accumRef + delta) - targetDelta: the leftover time is carried over.
C1_AccumReducedByStep ==
    [][(IsFrame /\ accumRef + delta' >= targetDelta)
          => accumRef' = accumRef + delta' - targetDelta]_vars

\* C2 (as claimed): the state after calls whose deltas sum to k * targetDelta
\* depends on k alone: k ticks, timeRef = k * targetDelta, uOffset advanced k
\* times, nothing pending.
C2_FixedStepDeterminism ==
    (total % targetDelta = 0) =>
        LET k == total \div targetDelta IN
        /\ ticks = k
        /\ timeRef = k * targetDelta
        /\ uOffset = [x |-> k * targetDelta * scrollTenths,
                      y |-> -(k * targetDelta * scrollTenths)]
        /\ accumRef = 0

\* C3 (as claimed): the number of ticks applied is floor(total / targetDelta)
\* within one tick.
C3_NoTimeLost ==
    /\ ticks >= (total \div targetDelta) - 1
    /\ ticks <= (total \div targetDelta) + 1

\* C4: ticks never run faster than the cadence: the number of ticks applied is
\* at most floor(total / targetDelta), and between two consecutive ticks at
\* least targetDelta of raw delta has been fed to the callback.
C4_NeverFasterThanCadence ==
    /\ [](ticks <= total \div targetDelta)
    /\ [][(IsTick /\ ticks >= 1) => total' - lastTickAt >= targetDelta]_vars
\* Two ticks have been applied, the second more than targetDelta after the first.
C4_Witness == ticks >= 2 /\ lastTickAt > ticks * targetDelta

\* C5: a call after which the accumulated time is still below targetDelta
\* applies no tick and changes nothing but accumRef, which grows by delta.
C5_SubStepThrottling ==
    [][(IsFrame /\ accumRef + delta' < targetDelta)
          => /\ accumRef' = accumRef + delta'
             /\ UNCHANGED <<timeRef, uOffset, positionY, floatOffset,
                            meshRef, ticks>>]_vars
\* The latest call was below the threshold (accumRef was not cleared by it)
\* on a panel that has already ticked and moved.
C5_Witness ==
    /\ frames >= 2 /\ delta > 0 /\ accumRef >= delta /\ accumRef < targetDelta
    /\ ticks >= 1 /\ positionY.bob

\* C8: after N ticks uOffset = (0.1 * N * targetDelta, -0.1 * N * targetDelta)
\* and timeRef = N * targetDelta; both advance on every tick, with or without
\* the mesh attached, and on no other step.
C8_ScrollMonotonicity ==
    /\ [](/\ uOffset.x = scrollTenths * ticks * targetDelta
          /\ uOffset.y = -(scrollTenths * ticks * targetDelta)
          /\ timeRef = ticks * targetDelta)
    /\ [][/\ IsTick <=> uOffset' # uOffset
          /\ IsTick <=> timeRef' # timeRef
          /\ IsTick => /\ uOffset'.x = uOffset.x + scrollTenths * targetDelta
                       /\ uOffset'.y = uOffset.y - scrollTenths * targetDelta
                       /\ timeRef' = timeRef + targetDelta]_vars
\* Ticks applied while the mesh reference was still null.
C8_Witness == ticks >= 2 /\ ~meshRef /\ ~positionY.bob /\ uOffset.x > 0

(***************************************************************************)
(* JavaScript numbers that the layout can produce: an integer value, NaN   *)
(* or an infinity.                                                         *)
(***************************************************************************)
Num(n) == [k |-> "num", v |-> n]
NaN == [k |-> "NaN", v |-> 0]
PosInf == [k |-> "+Infinity", v |-> 0]
NegInf == [k |-> "-Infinity", v |-> 0]
IsNum(a) == a.k = "num"

\* a / 0 for integers a
DivByZero(a) == IF a > 0 THEN PosInf ELSE IF a < 0 THEN NegInf ELSE NaN

\* Math.ceil(a / b)
JsCeilDiv(a, b) ==
    IF b = 0 THEN DivByZero(a)
    ELSE IF b > 0 THEN Num(-((-a) \div b))
    ELSE Num(-(a \div (-b)))

\* Math.floor(a / b)
JsFloorDiv(a, b) ==
    IF b = 0 THEN DivByZero(a)
    ELSE IF b > 0 THEN Num(a \div b)
    ELSE Num((-a) \div (-b))

\* Mutant: a remainder by zero yields 0.
JsRemZeroSafe(a, b) ==
    LET m == IF b < 0 THEN -b ELSE b IN
    IF b = 0 THEN Num(0)
    ELSE IF a >= 0 THEN Num(a % m) ELSE Num(-((-a) % m))

\* a % b : the result has the sign of the dividend; NaN when b is 0
JsRem(a, b) ==
    LET m == IF b < 0 THEN -b ELSE b IN
    IF b = 0 THEN NaN
    ELSE IF a >= 0 THEN Num(a % m) ELSE Num(-((-a) % m))

\* a - b on JavaScript numbers, given as the value of (a - b) when both are finite
JsSub(a, b, finite) ==
    IF IsNum(a) /\ IsNum(b) THEN Num(finite)
    ELSE IF a = NaN \/ b = NaN THEN NaN
    ELSE IF IsNum(a) THEN (IF b = PosInf THEN NegInf ELSE PosInf)
    ELSE IF IsNum(b) THEN a
    ELSE IF a = b THEN NaN
    ELSE a

(***************************************************************************)
(* Prophecies: the grid layout of one layer                                *)
(***************************************************************************)
halfSpacingX == 5     \* spacingX / 2 = 1.25, in quarters of a unit
halfSpacingY == 5     \* spacingY / 2 = 1.25, in quarters of a unit
imagePool == 20       \* imageIndex = (index % 20) + 1
panelSize == 120      \* size = 1.2, in hundredths

\* const layers: Layer[]
layers ==
    <<[grayHintDegre |-> 0, prophecyCount |-> 150, zPos |-> 6, itemsPerRow |-> 7],
      [grayHintDegre |-> -5, prophecyCount |-> 100, zPos |-> 2, itemsPerRow |-> 8],
      [grayHintDegre |-> -8, prophecyCount |-> 100, zPos |-> -3, itemsPerRow |-> 9],
      [grayHintDegre |-> -12, prophecyCount |-> 100, zPos |-> -8, itemsPerRow |-> 9]>>

\* const rows = Math.ceil(layer.prophecyCount / columns)
RowsOf(count, columns) == JsCeilDiv(count, columns)

\* Mutant: the column is computed with the row's formula.
ColOfAsRow(index, columns) == JsFloorDiv(index, columns)

\* const col = index % columns
ColOf(index, columns) == JsRem(index, columns)

\* const row = Math.floor(index / columns)
RowOf(index, columns) == JsFloorDiv(index, columns)

\* Mutant: the centre is taken at columns / 2 instead of (columns - 1) / 2.
XOfOffCentre(col, columns) ==
    IF IsNum(col) THEN Num((2 * col.v - columns) * halfSpacingX) ELSE NaN

\* const x = (col - (columns - 1) / 2) * spacingX      (in quarters)
XOf(col, columns) ==
    IF IsNum(col) THEN Num((2 * col.v - (columns - 1)) * halfSpacingX) ELSE NaN

\* const y = ((rows - 1) / 2 - row) * spacingY          (in quarters)
YOf(rows, row) ==
    JsSub(rows, row, ((rows.v - 1) - 2 * row.v) * halfSpacingY)

\* Array.from({ length: n }): a length below zero is clamped to zero
ArrayLength(n) == IF n < 0 THEN 0 ELSE n

\* The props of the <Prophecy> element of one index of a layer.
ProphecyProps(l, index) ==
    LET columns == l.itemsPerRow
        rows == RowsOf(l.prophecyCount, columns)
        col == ColOf(index, columns)
        row == RowOf(index, columns)
    IN [position |-> <<XOf(col, columns), YOf(rows, row), Num(0)>>,
        imageIndex |-> (index % imagePool) + 1,
        grayHint |-> l.grayHintDegre,
        size |-> panelSize]

\* The children of the <group> of one layer, in index order.
LayerPanels(l) ==
    [i \in 1..ArrayLength(l.prophecyCount) |-> ProphecyProps(l, i - 1)]

\* Prophecies maps one layer to its panels; it signals nothing.
RenderLayer ==
    /\ layoutState = "pending"
    /\ panels' = LayerPanels(layer)
    /\ layoutState' = "rendered"
    /\ UNCHANGED layer
    /\ UNCHANGED <<prophecyVars, shaderVars>>

MinInvalid == 2   \* invalid counts and columns are drawn from -MinInvalid..0

GeneratedLayers(counts, cols) ==
    {[grayHintDegre |-> 0, prophecyCount |-> n, zPos |-> 0, itemsPerRow |-> c] :
        n \in counts, c \in cols}

\* Layers that satisfy the precondition, the four of the source among them.
ValidLayers ==
    GeneratedLayers(1..MaxPanelCount, 1..MaxColumns)
        \cup {layers[i] : i \in 1..Len(layers)}

\* Layers that violate the precondition prophecyCount > 0 /\ itemsPerRow > 0.
InvalidLayers ==
    {l \in GeneratedLayers((-MinInvalid)..MaxPanelCount, (-MinInvalid)..MaxColumns) :
        l.prophecyCount <= 0 \/ l.itemsPerRow <= 0}

IsValidLayer(l) == l.prophecyCount > 0 /\ l.itemsPerRow > 0

(***************************************************************************)
(* The fragment shader                                                     *)
(***************************************************************************)
half == 50          \* 0.5, in hundredths
blueR == 0          \* blueTint = vec3(0.0, 0.1, 0.6), in hundredths
blueG == 10
blueB == 60
grayFactor == 10    \* 0.1 * uGrayHint, in hundredths per unit of uGrayHint

\* Mutant: the cut-out test is <= instead of <.
DrawsUpToHalf(a) == a <= half

\* if (prophecyColor.a < 0.5)
Draws(a) == a < half

\* vec3 finalColor = oceanColor.rgb + blueTint + grayHint
FinalColor(ocean, hint) ==
    [r |-> ocean.r + blueR + grayFactor * hint,
     g |-> ocean.g + blueG + grayFactor * hint,
     b |-> ocean.b + blueB + grayFactor * hint]

\* void main(): gl_FragColor = vec4(finalColor, oceanColor.a), or discard
FragmentMain(f) ==
    IF Draws(f.prophecyA)
    THEN [kind |-> "color", rgb |-> FinalColor(f.ocean, f.uGrayHint), a |-> f.ocean.a]
    ELSE [kind |-> "discard", rgb |-> [r |-> 0, g |-> 0, b |-> 0], a |-> 0]

AlphaSamples == {0, 30, 49, 50, 51, 90, 100}
ChannelSamples == {0, 40, 100}
HintSamples == {layers[i].grayHintDegre : i \in 1..Len(layers)} \cup {1}

FragInputs ==
    [prophecyA : AlphaSamples,
     ocean : [r : ChannelSamples, g : ChannelSamples, b : ChannelSamples,
              a : ChannelSamples],
     uGrayHint : HintSamples]

NoOutput == [kind |-> "pending", rgb |-> [r |-> 0, g |-> 0, b |-> 0], a |-> 0]

\* The shader runs on one fragment.
ShadeFragment ==
    /\ fragOut.kind = "pending"
    /\ fragOut' = FragmentMain(frag)
    /\ UNCHANGED frag
    /\ UNCHANGED <<prophecyVars, layoutVars>>

(***************************************************************************)
(* Specifications                                                          *)
(***************************************************************************)
NoLayer == layers[1]
NoFrag == [prophecyA |-> 0, ocean |-> [r |-> 0, g |-> 0, b |-> 0, a |-> 0], uGrayHint |-> 0]

IdleProphecy == InitProphecy /\ floatOffset = 0
IdleLayout == layer = NoLayer /\ panels = <<>> /\ layoutState = "pending"
IdleShader == frag = NoFrag /\ fragOut = NoOutput

\* The per-frame callback of one panel.
Init == InitProphecy /\ IdleLayout /\ IdleShader
Next == OnFrame \/ AttachMesh
Spec == Init /\ [][Next]_vars

\* The layout applied to layers that satisfy its precondition.
InitLayout ==
    /\ IdleProphecy /\ IdleShader
    /\ layer \in ValidLayers /\ panels = <<>> /\ layoutState = "pending"
NextLayout == RenderLayer
SpecLayout == InitLayout /\ [][NextLayout]_vars

\* The layout applied to layers that violate its precondition.
InitInvalidLayout ==
    /\ IdleProphecy /\ IdleShader
    /\ layer \in InvalidLayers /\ panels = <<>> /\ layoutState = "pending"
SpecInvalidLayout == InitInvalidLayout /\ [][NextLayout]_vars

\* The shader applied to one fragment.
InitShader ==
    /\ IdleProphecy /\ IdleLayout
    /\ frag \in FragInputs /\ fragOut = NoOutput
NextShader == ShadeFragment
SpecShader == InitShader /\ [][NextShader]_vars

(***************************************************************************)
(* Properties of the layout                                                *)
(***************************************************************************)
RECURSIVE SumX(_)
\* Sum of the x placements of a sequence of panels (quarters of a unit).
SumX(ps) == IF ps = <<>> THEN 0 ELSE ps[1].position[1].v + SumX(Tail(ps))
RECURSIVE SumY(_)
\* Sum of the y placements of a sequence of panels (quarters of a unit).
SumY(ps) == IF ps = <<>> THEN 0 ELSE ps[1].position[2].v + SumY(Tail(ps))

Rendered == layoutState = "rendered"

\* C6 (as claimed): for every layer with prophecyCount > 0 and itemsPerRow > 0,
\* a partially filled last row included, the mean of the x placements is 0 and
\* the mean of the y placements is 0.
C6_CenteredForAnyLayer ==
    (Rendered /\ IsValidLayer(layer)) => (SumX(panels) = 0 /\ SumY(panels) = 0)

\* C6 (amended): when prophecyCount is a multiple of itemsPerRow (every row is
\* full) the mean of the x placements is 0 and the mean of the y placements is 0.
C6_CenteredWhenRowsFull ==
    (Rendered /\ IsValidLayer(layer)
        /\ layer.prophecyCount % layer.itemsPerRow = 0)
    => /\ Len(panels) = layer.prophecyCount
       /\ \A i \in 1..Len(panels) :
              IsNum(panels[i].position[1]) /\ IsNum(panels[i].position[2])
       /\ SumX(panels) = 0
       /\ SumY(panels) = 0
\* A rendered layer of several full rows and several columns.
C6_Witness ==
    /\ Rendered
    /\ layer.itemsPerRow >= 2
    /\ layer.prophecyCount >= 2 * layer.itemsPerRow
    /\ layer.prophecyCount % layer.itemsPerRow = 0
    /\ Len(panels) = layer.prophecyCount

\* C7: every index of a valid layer maps to a cell with 0 <= col < columns and
\* 0 <= row < rows = ceil(prophecyCount / columns); no two indices share a cell,
\* and no two panels of the layer share an (x, y) placement.
C7_GridCoverage ==
    (Rendered /\ IsValidLayer(layer)) =>
        LET n == layer.prophecyCount
            columns == layer.itemsPerRow
            rows == RowsOf(n, columns)
        IN /\ Len(panels) = n
           /\ IsNum(rows) /\ (rows.v - 1) * columns < n /\ n <= rows.v * columns
           /\ \A i \in 0..(n - 1) :
                 /\ IsNum(ColOf(i, columns)) /\ IsNum(RowOf(i, columns))
                 /\ 0 <= ColOf(i, columns).v /\ ColOf(i, columns).v < columns
                 /\ 0 <= RowOf(i, columns).v /\ RowOf(i, columns).v < rows.v
           /\ \A i, j \in 0..(n - 1) :
                 i # j =>
                   /\ <<RowOf(i, columns), ColOf(i, columns)>>
                         # <<RowOf(j, columns), ColOf(j, columns)>>
                   /\ <<panels[i + 1].position[1], panels[i + 1].position[2]>>
                         # <<panels[j + 1].position[1], panels[j + 1].position[2]>>
\* The layer of 100 panels in 9 columns has been rendered in 12 rows.
C7_Witness ==
    /\ Rendered
    /\ layer.prophecyCount = 100 /\ layer.itemsPerRow = 9
    /\ RowsOf(layer.prophecyCount, layer.itemsPerRow) = Num(12)
    /\ Len(panels) = 100

\* C10 (as claimed): a layer with prophecyCount <= 0 or itemsPerRow <= 0 is not
\* rendered: the layout signals InvalidLayoutError and produces no panels.
C10_InvalidLayerFailsFast ==
    (layoutState # "pending" /\ ~IsValidLayer(layer))
    => (layoutState = "InvalidLayoutError" /\ panels = <<>>)

\* C10 (amended): a layer with prophecyCount <= 0 or itemsPerRow <= 0 is
\* rendered without any error being signalled: prophecyCount <= 0 gives an
\* empty layer, and itemsPerRow = 0 with prophecyCount > 0 gives prophecyCount
\* panels whose x and y placements are NaN.
C10_InvalidLayerRenderedSilently ==
    /\ layoutState # "InvalidLayoutError"
    /\ (Rendered /\ ~IsValidLayer(layer)) =>
          /\ layer.prophecyCount <= 0 => panels = <<>>
          /\ layer.prophecyCount > 0 => Len(panels) = layer.prophecyCount
          /\ (layer.prophecyCount > 0 /\ layer.itemsPerRow = 0) =>
                \A i \in 1..Len(panels) :
                    panels[i].position[1] = NaN /\ panels[i].position[2] = NaN
\* A layer of several panels and zero columns has been rendered.
C10_Witness ==
    /\ Rendered
    /\ layer.itemsPerRow = 0 /\ layer.prophecyCount >= 2
    /\ Len(panels) = layer.prophecyCount
\* A layer of no panels has been rendered.
C10_WitnessEmpty == Rendered /\ layer.prophecyCount <= 0 /\ panels = <<>>

(***************************************************************************)
(* Properties of the fragment shader                                       *)
(***************************************************************************)
\* C9: a fragment whose prophecy alpha is >= 0.5 is discarded (0.5 included);
\* any other fragment is written with colour ocean.rgb + (0, 0.1, 0.6) +
\* 0.1 * uGrayHint in each channel and with the ocean's alpha.  Of the alphas
\* 0.9, 0.3, 0.5, 0.49 the first and third are discarded, the others drawn.
C9_CutoutRule ==
    fragOut.kind # "pending" =>
        /\ frag.prophecyA >= 50 => fragOut.kind = "discard"
        /\ frag.prophecyA < 50 =>
              /\ fragOut.kind = "color"
              /\ fragOut.rgb.r = frag.ocean.r + 10 * frag.uGrayHint
              /\ fragOut.rgb.g = frag.ocean.g + 10 + 10 * frag.uGrayHint
              /\ fragOut.rgb.b = frag.ocean.b + 60 + 10 * frag.uGrayHint
              /\ fragOut.a = frag.ocean.a
        /\ frag.prophecyA \in {90, 50} => fragOut.kind = "discard"
        /\ frag.prophecyA \in {30, 49} => fragOut.kind = "color"
\* The fragment whose alpha is exactly 0.5 has been discarded.
C9_Witness ==
    /\ frag.prophecyA = 50 /\ fragOut.kind = "discard"
    /\ frag.uGrayHint < 0 /\ frag.ocean.a > 0
====
